---- MODULE Spec2Model ----
(***************************************************************************)
(* A model of main.py of lambda-resize-image: the rule matcher             *)
(* (find_config_objects), the per-output pipeline (process, resize,        *)
(* imgoptimize, upload under @retry) and the orchestrator (lambda_handler).*)
(*                                                                         *)
(* Strings are sequences of one-character strings.  A key_regexp is a      *)
(* sequence of regex items: a literal character, "(.)" (a capture group    *)
(* of one character) or "$" (end of string).  A key template is a sequence *)
(* of format tokens: a literal character or a field "{0}", "{1}", "{2}".   *)
(* Python dicts are records; a key that is absent from the dict is absent  *)
(* from the record's DOMAIN.                                               *)
(***************************************************************************)
EXTENDS Integers, Sequences, FiniteSets, TLC

VARIABLES
    Config_setting,   \* Config.setting, the shared list of rules
    Config_initial,   \* history: Config.setting as loaded
    pc,               \* position of lambda_handler
    bucket,           \* lambda_handler: bucket
    key_name,         \* lambda_handler: key_name
    settings,         \* lambda_handler: settings (find_config_objects' return)
    si,               \* index of `setting` in `for setting in settings`
    oi,               \* index of `output_setting` in setting['outputs']
    raised_exc,       \* lambda_handler: raised_exc
    exc,              \* the exception lambda_handler / find_config_objects ended with
    original_file,    \* the source NamedTemporaryFile exists
    resized_name,     \* the resized NamedTemporaryFile of process exists
    attempt_number,   \* retrying: attempts of upload made for the current output
    downloads,        \* history: calls of download_s3_object in this invocation
    downloaded,       \* history: download_s3_object returned normally
    processed,        \* history: outputs <<si, oi>> process was invoked for, in order
    failed,           \* history: outputs whose process raised
    work,             \* history: steps of process for the last output of `processed`,
                      \* whether it ended and the exception it ended with
    nofirst,          \* history: find_config_objects was not called directly yet
    first,            \* history: arguments and outcome of its first direct call
    again,            \* history: a later direct call had the first one's arguments
    event,            \* history: event['Records'] of the invocation
    image_width,      \* Image.open(original_file.name).size[0] of the downloaded source
    original_files,   \* history: source temporary files that exist
    resized_files     \* history: resized temporary files that exist

vars == << Config_setting, Config_initial, pc, event, bucket, key_name, settings, si, oi,
           raised_exc, exc, original_file, resized_name, attempt_number,
           downloads, downloaded, processed, failed, work, nofirst, first, again,
           event, image_width, original_files, resized_files >>

-----------------------------------------------------------------------------
(* Bounds and input domains *)

MaxRules == 2
MaxKeyLen == 2
MaxImageWidth == 2
MaxRecords == 2

Alphabet == {"a", "b"}
Buckets == {"b1", "b2"}

Keys == UNION {[1..n -> Alphabet] : n \in 1..MaxKeyLen}

ResizePolicy == [DEFAULT |-> "DEFAULT", ONLY_SHRINK |-> "ONLY_SHRINK"]

\* Output dicts.  'bucket' and 'width' are optional keys.
OutPlain == [key |-> <<"x", "{0}">>, width |-> 1]
OutOther == [key |-> <<"{1}", "{0}">>, width |-> 2, bucket |-> "b2"]
OutNoWidth == [key |-> <<"y">>]
OutLit == [key |-> <<"z">>, width |-> 2, bucket |-> "b1"]
OutBad == [key |-> <<"{2}">>, width |-> 1]

\* Rule dicts.  'bucket', 'key_regexp' and 'outputs' are optional keys.
\* Rules of bucket b1 that some key matches ...
EligibleRules ==
    { [bucket |-> "b1", key_regexp |-> <<"(.)", "(.)">>, outputs |-> <<OutPlain, OutOther>>],
      [bucket |-> "b1", key_regexp |-> <<"a", "(.)", "$">>, outputs |-> <<OutNoWidth, OutPlain>>],
      [bucket |-> "b1", key_regexp |-> <<"(.)">>, outputs |-> <<OutPlain, OutBad, OutLit>>] }

\* ... a rule of the other bucket, and rules that lack a key or have no output.
OtherRules ==
    { [bucket |-> "b2", key_regexp |-> <<"b">>, outputs |-> <<OutLit>>],
      [bucket |-> "b1", key_regexp |-> <<"a">>, outputs |-> << >>],
      [bucket |-> "b1", key_regexp |-> <<"a">>],
      [bucket |-> "b2", outputs |-> <<OutLit>>],
      [key_regexp |-> <<"a">>, outputs |-> <<OutLit>>] }

Rules == EligibleRules \cup OtherRules

ConfigsOf(rules) == UNION {[1..n -> rules] : n \in 0..MaxRules}

-----------------------------------------------------------------------------
(* Exceptions *)

NoOutput == <<0, 0>>
None == [type |-> "None", output |-> NoOutput, attempt |-> 0]
Exception(type, output, attempt) == [type |-> type, output |-> output, attempt |-> attempt]

-----------------------------------------------------------------------------
(* find_config_objects *)

NoMatch == [matched |-> FALSE, groups |-> << >>]

\* re.match from position pos of string, with the groups captured so far.
RECURSIVE re_match_at(_, _, _, _)
re_match_at(pattern, string, pos, groups) ==
    IF pattern = << >> THEN [matched |-> TRUE, groups |-> groups]
    ELSE LET item == Head(pattern) IN
         IF item = "$"
         THEN IF pos = Len(string) + 1
              THEN re_match_at(Tail(pattern), string, pos, groups)
              ELSE NoMatch
         ELSE IF pos > Len(string) THEN NoMatch
         ELSE IF item = "(.)"
         THEN re_match_at(Tail(pattern), string, pos + 1, Append(groups, string[pos]))
         ELSE IF item = string[pos]
         THEN re_match_at(Tail(pattern), string, pos + 1, groups)
         ELSE NoMatch

\* re.match(c['key_regexp'], key_name): the pattern applied at the start of the string.
re_match(pattern, string) == re_match_at(pattern, string, 1, << >>)

IsField(token) == token \in {"{0}", "{1}", "{2}"}
FieldIndex(token) == CASE token = "{0}" -> 0 [] token = "{1}" -> 1 [] token = "{2}" -> 2

\* A format whose result is dropped: the key stays the template.
str_format_dropped(template, args) == [raised |-> FALSE, value |-> template]

\* template.format(*args): raised is TRUE for the IndexError of a field beyond args.
RECURSIVE str_format(_, _)
str_format(template, args) ==
    IF template = << >> THEN [raised |-> FALSE, value |-> << >>]
    ELSE LET token == Head(template)
             rest == str_format(Tail(template), args)
         IN  IF IsField(token) /\ FieldIndex(token) >= Len(args)
             THEN [raised |-> TRUE, value |-> << >>]
             ELSE IF rest.raised THEN rest
             ELSE [raised |-> FALSE,
                   value |-> << IF IsField(token) THEN args[FieldIndex(token) + 1]
                                ELSE token >> \o rest.value]

\* c.get('outputs', [])
get_outputs(c) == IF "outputs" \in DOMAIN c THEN c.outputs ELSE << >>

\* No copy: the loop works on the rule of the shared list itself.
no_copy(c) == [obj |-> c, shared |-> TRUE]

\* deepcopy(c): a fresh object that shares nothing with Config.setting.
deepcopy(c) == [obj |-> c, shared |-> FALSE]

\* The body of `for output in c['outputs']` from output n on: each output gets
\* the source bucket when it has none and its key formatted with the groups.
\* The loop stops at the first output whose format raises; the outputs before
\* it stay rewritten.
RECURSIVE expand_outputs(_, _, _, _)
expand_outputs(outputs, src_bucket, groups, n) ==
    IF n > Len(outputs) THEN [raised |-> FALSE, outputs |-> outputs]
    ELSE LET output == outputs[n]
             with_bucket == IF "bucket" \notin DOMAIN output
                            THEN ("bucket" :> src_bucket) @@ output
                            ELSE output
             key == str_format(output.key, groups)
         IN  IF key.raised
             THEN [raised |-> TRUE, outputs |-> [outputs EXCEPT ![n] = with_bucket]]
             ELSE expand_outputs(
                      [outputs EXCEPT ![n] = [with_bucket EXCEPT !.key = key.value]],
                      src_bucket, groups, n + 1)

\* The loop `for c in Config.setting` from rule n on.  setting is Config.setting
\* as the loop has left it, ret the list built so far.
RECURSIVE find_config_loop(_, _, _, _, _)
find_config_loop(setting, src_bucket, key, n, ret) ==
    IF n > Len(setting) THEN [exc |-> None, ret |-> ret, setting |-> setting]
    ELSE LET c == setting[n] IN
         IF "bucket" \notin DOMAIN c \/ c.bucket # src_bucket
         THEN find_config_loop(setting, src_bucket, key, n + 1, ret)
         ELSE IF "key_regexp" \notin DOMAIN c \/ Len(get_outputs(c)) = 0
         THEN find_config_loop(setting, src_bucket, key, n + 1, ret)
         ELSE LET match_obj == re_match(c.key_regexp, key) IN
              IF ~match_obj.matched
              THEN find_config_loop(setting, src_bucket, key, n + 1, ret)
              ELSE LET copy == deepcopy(c)
                       expanded == expand_outputs(copy.obj.outputs, src_bucket,
                                                  match_obj.groups, 1)
                       c2 == [copy.obj EXCEPT !.outputs = expanded.outputs]
                       setting2 == IF copy.shared THEN [setting EXCEPT ![n] = c2]
                                   ELSE setting
                   IN  IF expanded.raised
                       THEN [exc |-> Exception("IndexError", NoOutput, 0),
                             ret |-> << >>, setting |-> setting2]
                       ELSE find_config_loop(setting2, src_bucket, key, n + 1,
                                             Append(ret, c2))

\* find_config_objects(bucket, key_name) run on the shared list `setting`:
\* the exception it raised (None when it returned), the list it returned and
\* the shared list afterwards.
find_config_objects(setting, src_bucket, key) ==
    find_config_loop(setting, src_bucket, key, 1, << >>)

-----------------------------------------------------------------------------
(* The state after import: Config.setting loaded, no invocation running *)

\* What process has done for the output it was last called for.
NoWork ==
    [tmp |-> 0, resize |-> 0, optimize |-> 0, upload |-> 0, done |-> FALSE, error |-> None,
     resized_by |-> "nothing", resized_width |-> 0, put |-> << >>]
NoCall == [bucket |-> "", key |-> << >>, exc |-> None, ret |-> << >>]

Loaded(configs) ==
    /\ Config_setting \in configs
    /\ Config_initial = Config_setting
    /\ pc = "idle"
    /\ bucket = ""
    /\ key_name = << >>
    /\ settings = << >>
    /\ si = 1
    /\ oi = 1
    /\ raised_exc = None
    /\ exc = None
    /\ original_file = FALSE
    /\ resized_name = FALSE
    /\ attempt_number = 0
    /\ downloads = 0
    /\ downloaded = FALSE
    /\ processed = << >>
    /\ failed = {}
    /\ work = NoWork
    /\ nofirst = TRUE
    /\ first = NoCall
    /\ again = FALSE
    /\ event = << >>
    /\ image_width = 0
    /\ original_files = 0
    /\ resized_files = 0

Init == Loaded(ConfigsOf(EligibleRules))

-----------------------------------------------------------------------------
(* lambda_handler *)

\* @retry(stop_max_attempt_number=10)
stop_max_attempt_number == 10

\* retrying stops one attempt late.
stop_after_attempt_late(previous_attempt_number) ==
    previous_attempt_number > stop_max_attempt_number

\* retrying's stop condition after an attempt of upload that raised.
stop_after_attempt(previous_attempt_number) ==
    previous_attempt_number >= stop_max_attempt_number

\* The whole of process is run again after an attempt of upload that raised.
retry_process == "resize"

\* @retry decorates upload alone: where control goes for another attempt.
retry_upload == "upload"

\* download_s3_object retried the way upload is.
download_retry_as_upload(previous_attempt_number) ==
    ~stop_after_attempt(previous_attempt_number)

\* download_s3_object carries no @retry: whether a download that raised is
\* attempted again.
download_retry(previous_attempt_number) == FALSE

\* The handler goes on to the download whatever was matched.
no_config_unchecked(found) == FALSE

\* `if len(settings) == 0: ... return`
no_config(found) == Len(found) = 0

\* No width check.
width_unchecked(setting) == FALSE

\* `if setting.get('width') is None: raise ValueError('Unknown width')`
width_is_none(setting) == "width" \notin DOMAIN setting

\* No try around process: the exception leaves the loops.
except_nothing(e) == FALSE

\* `except Exception as e` around process(original_file.name, output_setting):
\* whether an exception e raised by process is caught.
except_Exception(e) == TRUE

\* The first exception caught is kept.
raised_exc_first(e, previous) == IF previous # None THEN previous ELSE e

\* `raised_exc = e` in the except clause, `previous` being raised_exc before it.
raised_exc_e(e, previous) == e

\* The handler swallows the recorded exception.
raise_nothing(recorded) == FALSE

\* `if raised_exc is not None: raise raised_exc`
raise_raised_exc(recorded) == recorded # None

\* The download sits inside the loops.
for_output_download == "tempfile"

\* Where `for output_setting in setting['outputs']` takes the next output.
for_output == "process"

\* The last record of the event.
Records_last(Records) == Records[Len(Records)]

\* event['Records'][0]
Records_0(Records) == Records[1]

\* The %XX escapes of the keys considered.
hex_to_char == (<<"2", "B">> :> "+") @@ (<<"2", "E">> :> ".")

\* urllib.unquote: each %XX escape becomes its character, anything else stays.
RECURSIVE unquote(_)
unquote(s) ==
    IF s = << >> THEN << >>
    ELSE IF s[1] = "%" /\ Len(s) >= 3 /\ <<s[2], s[3]>> \in DOMAIN hex_to_char
    THEN <<hex_to_char[<<s[2], s[3]>>]>> \o unquote(SubSeq(s, 4, Len(s)))
    ELSE <<s[1]>> \o unquote(Tail(s))

\* urllib.unquote_plus: `s.replace('+', ' ')`, then unquote.
unquote_plus(s) == unquote([i \in 1..Len(s) |-> IF s[i] = "+" THEN " " ELSE s[i]])

\* The file stays on disk when the with block is left.
not_closing(files) == files

\* `with closing(NamedTemporaryFile(...))`: leaving the block closes the file,
\* which deletes it; `files` counts the temporary files of that kind on disk.
closing(files) == files - 1

\* p.rfind(c), counted from 1, 0 when c does not occur.
rfind(p, c) ==
    LET at == {i \in 1..Len(p) : p[i] = c}
    IN  IF at = {} THEN 0 ELSE CHOOSE i \in at : \A j \in at : j <= i

\* os.path.splitext: the extension starts at the last dot of the last path
\* component, unless only dots precede it there.
splitext(p) ==
    LET sepIndex == rfind(p, "/")
        dotIndex == rfind(p, ".")
    IN  IF /\ dotIndex > sepIndex
           /\ \E i \in (sepIndex + 1)..(dotIndex - 1) : p[i] # "."
        THEN <<SubSeq(p, 1, dotIndex - 1), SubSeq(p, dotIndex, Len(p))>>
        ELSE <<p, << >>>>

\* NamedTemporaryFile(suffix=ext).name: a fresh path of the temporary directory
\* that ends with the suffix.
NamedTemporaryFile(suffix) == <<"/", "t">> \o suffix

\* The equality case resizes.
resize_above(resize_policy, width, size) ==
    IF resize_policy = ResizePolicy.ONLY_SHRINK /\ width > size
    THEN "write(f.read())"
    ELSE "imgresize"

\* lines 70-77: what resize does for a source whose Image.open(filename).size[0]
\* is `size`: copy the source's bytes, or call imgresize.
resize_by(resize_policy, width, size) ==
    IF resize_policy = ResizePolicy.ONLY_SHRINK /\ width >= size
    THEN "write(f.read())"
    ELSE "imgresize"

\* `setting.get('policy', ResizePolicy.DEFAULT)`
resize_policy(setting) ==
    IF "policy" \in DOMAIN setting THEN setting.policy ELSE ResizePolicy.DEFAULT

\* mimetypes' tables, for the extensions considered.
encodings_map == (<<".", "g", "z">> :> "gzip")
types_map == (<<".", "p", "n", "g">> :> "image/png") @@ (<<".", "j", "p", "g">> :> "image/jpeg")

\* mimetypes.guess_type(filename): an encoding extension is taken off first,
\* the type is that of the extension then left; "None" where it finds none.
guess_type(filename) ==
    LET whole == splitext(filename)
        encoded == whole[2] \in DOMAIN encodings_map
        base == IF encoded THEN splitext(whole[1]) ELSE whole
    IN  [content_type |-> IF base[2] \in DOMAIN types_map THEN types_map[base[2]] ELSE "None",
         encoding |-> IF encoded THEN encodings_map[whole[2]] ELSE "None"]

\* lines 117-128: the dict of what could be guessed.
guess_mimetype(filename) ==
    LET guessed == guess_type(filename)
        keys == {k \in {"ContentType"} : guessed.content_type # "None"}
                    \cup {k \in {"ContentEncoding"} : guessed.encoding = "gzip"}
    IN  [k \in keys |-> IF k = "ContentType" THEN guessed.content_type ELSE "gzip"]

\* lines 85-107
permitted ==
    { "ACL", "CacheControl", "ContentDisposition", "ContentEncoding", "ContentLanguage",
      "ContentLength", "ContentMD5", "ContentType", "Expires", "GrantFullControl",
      "GrantRead", "GrantReadACP", "GrantWriteACP", "Metadata", "ServerSideEncryption",
      "StorageClass", "WebsiteRedirectLocation", "SSECustomerAlgorithm", "SSECustomerKey",
      "SSEKMSKeyId", "RequestPayer" }

\* setting.get(key): << >> for None, else the value in a one-element sequence.
get(setting, key) == IF key \in DOMAIN setting THEN <<setting[key]>> ELSE << >>

\* Every configured attribute is passed on.
get_put_object_params_all(attrs) ==
    IF attrs = << >> THEN << >> ELSE attrs[1]

\* lines 80-114: {} for None, else the entries whose key is permitted.
get_put_object_params(attrs) ==
    IF attrs = << >> THEN << >>
    ELSE [key \in {k \in DOMAIN attrs[1] : k \in permitted} |-> attrs[1][key]]

\* The guessed value replaces the configured one.
setdefault_overriding(extra_args, args) ==
    [key \in DOMAIN extra_args \cup DOMAIN args |->
        IF key \in DOMAIN args THEN args[key] ELSE extra_args[key]]

\* lines 142-144: `for key in args: if key not in extra_args: extra_args[key] = args[key]`
setdefault(extra_args, args) ==
    [key \in DOMAIN extra_args \cup DOMAIN args |->
        IF key \in DOMAIN extra_args THEN extra_args[key] ELSE args[key]]

\* lines 133-157: the s3.upload_file call of one attempt of upload(filename, setting).
upload_file(filename, setting) ==
    [region |-> get(setting, "region"),
     Filename |-> filename,
     Bucket |-> setting.bucket,
     Key |-> setting.key,
     ExtraArgs |-> setdefault(get_put_object_params(get(setting, "attr")),
                              guess_mimetype(filename))]

\* lines 188-198 for an event with the given records: bucket and key of one
\* record, the key unquoted, find_config_objects and the early return.
lambda_handler(Records) ==
    /\ pc = "idle"
    /\ event' = Records
    /\ LET b == Records_0(Records).s3.bucket.name
           k == unquote_plus(Records_0(Records).s3.object.key)
           found == find_config_objects(Config_setting, b, k)
       IN  /\ bucket' = b
           /\ key_name' = k
           /\ Config_setting' = found.setting
           /\ settings' = found.ret
           /\ exc' = found.exc
           /\ pc' = IF found.exc # None THEN "raised"
                    ELSE IF no_config(found.ret) THEN "returned"
                    ELSE "tempfile"
    /\ UNCHANGED << Config_initial, si, oi, raised_exc, original_file, original_files,
                    resized_name, resized_files, attempt_number, downloads, downloaded,
                    processed, failed, work, nofirst, first, again, image_width >>

\* line 202: `with closing(NamedTemporaryFile(suffix=ext)) as original_file`
open_original_file ==
    /\ pc = "tempfile"
    /\ original_file' = TRUE
    /\ original_files' = original_files + 1
    /\ pc' = "download"
    /\ UNCHANGED << Config_setting, Config_initial, event, bucket, key_name, settings, si, oi,
                    raised_exc, exc, resized_name, resized_files, attempt_number, downloads,
                    downloaded, processed, failed, work, nofirst, first, again, image_width >>

\* The end of the loops and of the with block, lines 213-215, with `recorded`
\* the value of raised_exc.
HandlerExit(recorded) ==
    /\ original_file' = FALSE
    /\ original_files' = closing(original_files)
    /\ exc' = IF raise_raised_exc(recorded) THEN recorded ELSE None
    /\ pc' = IF raise_raised_exc(recorded) THEN "raised" ELSE "returned"

HasOutput(s, o) == s \in 1..Len(settings) /\ o \in 1..Len(settings[s].outputs)

\* lines 203-207: download_s3_object, which returns, the file then holding an
\* image `size` pixels wide, or raises; then the first output.
download_s3_object(ok, size) ==
    /\ pc = "download"
    /\ downloads' = downloads + 1
    /\ downloaded' = ok
    /\ image_width' = IF ok THEN size ELSE 0
    /\ IF ok
       THEN IF HasOutput(si, oi)
            THEN pc' = "process" /\ UNCHANGED << original_file, original_files, exc >>
            ELSE HandlerExit(raised_exc)
       ELSE IF download_retry(downloads + 1)
       THEN UNCHANGED << pc, original_file, original_files, exc >>
       ELSE /\ original_file' = FALSE
            /\ original_files' = closing(original_files)
            /\ exc' = Exception("DownloadError", NoOutput, 0)
            /\ pc' = "raised"
    /\ UNCHANGED << Config_setting, Config_initial, event, bucket, key_name, settings, si, oi,
                    raised_exc, resized_name, resized_files, attempt_number, processed, failed,
                    work, nofirst, first, again >>

output_setting == settings[si].outputs[oi]

\* lines 201-202: the name of the file the source is downloaded to.
original_file_name == NamedTemporaryFile(splitext(key_name)[2])

\* The resized file takes the extension of the output's key.
resized_name_of_key == NamedTemporaryFile(splitext(output_setting.key)[2])

\* lines 167-169: process(original_file.name, setting) gives its own file the
\* extension of the file name it was called with.
resized_name_name == NamedTemporaryFile(splitext(original_file_name)[2])

\* process ends for the current output, with exception e or normally (e = None),
\* having done the steps w: its temporary file, if it got to open one, is
\* closed, the handler records e and takes the next output.
ProcessExit(e, w) ==
    /\ resized_name' = FALSE
    /\ resized_files' = IF resized_name THEN closing(resized_files) ELSE resized_files
    /\ work' = [w EXCEPT !.done = TRUE, !.error = e]
    /\ failed' = IF e # None THEN failed \cup {<<si, oi>>} ELSE failed
    /\ IF e # None /\ ~except_Exception(e)
       THEN /\ raised_exc' = raised_exc
            /\ original_file' = FALSE
            /\ original_files' = closing(original_files)
            /\ exc' = e
            /\ pc' = "raised"
            /\ UNCHANGED << si, oi >>
       ELSE LET recorded == IF e # None THEN raised_exc_e(e, raised_exc) ELSE raised_exc IN
            /\ raised_exc' = recorded
            /\ IF HasOutput(si, oi + 1)
               THEN /\ si' = si /\ oi' = oi + 1 /\ pc' = for_output
                    /\ UNCHANGED << original_file, original_files, exc >>
               ELSE IF HasOutput(si + 1, 1)
               THEN /\ si' = si + 1 /\ oi' = 1 /\ pc' = for_output
                    /\ UNCHANGED << original_file, original_files, exc >>
               ELSE /\ UNCHANGED << si, oi >>
                    /\ HandlerExit(recorded)

\* lines 209, 162-167: process is called for the current output and checks the width.
process ==
    /\ pc = "process"
    /\ processed' = Append(processed, <<si, oi>>)
    /\ attempt_number' = 0
    /\ IF width_is_none(output_setting)
       THEN ProcessExit(Exception("ValueError", <<si, oi>>, 0), NoWork)
       ELSE /\ pc' = "resized_name"
            /\ work' = NoWork
            /\ UNCHANGED << si, oi, raised_exc, exc, original_file, original_files,
                            resized_name, resized_files, failed >>
    /\ UNCHANGED << Config_setting, Config_initial, event, bucket, key_name, settings,
                    downloads, downloaded, nofirst, first, again, image_width >>

\* line 169: `with closing(NamedTemporaryFile(suffix=ext)) as resized_name`
open_resized_name ==
    /\ pc = "resized_name"
    /\ resized_name' = TRUE
    /\ resized_files' = resized_files + 1
    /\ work' = [work EXCEPT !.tmp = @ + 1]
    /\ pc' = "resize"
    /\ UNCHANGED << Config_setting, Config_initial, event, bucket, key_name, settings, si, oi,
                    raised_exc, exc, original_file, original_files, attempt_number, downloads,
                    downloaded, processed, failed, nofirst, first, again, image_width >>

\* lines 170, 68-77: resize(filename, resize_policy, width, resized_name) copies
\* the source or calls imgresize, and returns or raises.
resize(ok) ==
    /\ pc = "resize"
    /\ LET by == resize_by(resize_policy(output_setting), output_setting.width, image_width)
           w == [work EXCEPT !.resize = @ + 1,
                             !.resized_by = by,
                             !.resized_width = IF by = "imgresize"
                                               THEN output_setting.width
                                               ELSE image_width]
       IN  IF ok
           THEN /\ pc' = "optimize"
                /\ work' = w
                /\ UNCHANGED << si, oi, raised_exc, exc, original_file, original_files,
                                resized_name, resized_files, failed >>
           ELSE ProcessExit(Exception("ResizeError", <<si, oi>>, 0), w)
    /\ UNCHANGED << Config_setting, Config_initial, event, bucket, key_name, settings,
                    attempt_number, downloads, downloaded, processed, nofirst, first, again,
                    image_width >>

\* line 173: imgoptimize(resized_name.name) returns or raises.
imgoptimize(ok) ==
    /\ pc = "optimize"
    /\ IF ok
       THEN /\ pc' = "upload"
            /\ work' = [work EXCEPT !.optimize = @ + 1]
            /\ UNCHANGED << si, oi, raised_exc, exc, original_file, original_files,
                            resized_name, resized_files, failed >>
       ELSE ProcessExit(Exception("OptimizeError", <<si, oi>>, 0), [work EXCEPT !.optimize = @ + 1])
    /\ UNCHANGED << Config_setting, Config_initial, event, bucket, key_name, settings,
                    attempt_number, downloads, downloaded, processed, nofirst, first, again,
                    image_width >>

\* lines 176, 131-157: one attempt of upload(resized_name.name, setting) under
\* @retry.  An attempt that raises is repeated until retrying's stop condition
\* holds, and then the exception of that last attempt leaves upload.
upload(ok) ==
    /\ pc = "upload"
    /\ attempt_number' = attempt_number + 1
    /\ LET w == [work EXCEPT !.upload = @ + 1,
                             !.put = <<upload_file(resized_name_name, output_setting)>>] IN
       IF ok
       THEN ProcessExit(None, w)
       ELSE IF stop_after_attempt(attempt_number + 1)
       THEN ProcessExit(Exception("UploadError", <<si, oi>>, attempt_number + 1), w)
       ELSE /\ work' = w
            /\ pc' = retry_upload
            /\ UNCHANGED << si, oi, raised_exc, exc, original_file, original_files,
                            resized_name, resized_files, failed >>
    /\ UNCHANGED << Config_setting, Config_initial, event, bucket, key_name, settings,
                    downloads, downloaded, processed, nofirst, first, again, image_width >>

\* The invocation is over: lambda_handler's frame is gone; the module,
\* Config.setting and the temporary directory stay for the next event.
invocation_ends ==
    /\ pc \in {"returned", "raised"}
    /\ pc' = "idle"
    /\ event' = << >>
    /\ bucket' = ""
    /\ key_name' = << >>
    /\ settings' = << >>
    /\ si' = 1
    /\ oi' = 1
    /\ raised_exc' = None
    /\ exc' = None
    /\ attempt_number' = 0
    /\ downloads' = 0
    /\ downloaded' = FALSE
    /\ image_width' = 0
    /\ processed' = << >>
    /\ failed' = {}
    /\ work' = NoWork
    /\ UNCHANGED << Config_setting, Config_initial, original_file, original_files,
                    resized_name, resized_files, nofirst, first, again >>

\* An S3 event record.
Record(b, k) == [s3 |-> [bucket |-> [name |-> b], object |-> [key |-> k]]]

ImageWidths == 1..MaxImageWidth

\* The steps after lambda_handler has taken the event.
Steps ==
    \/ open_original_file
    \/ \E ok \in BOOLEAN, size \in ImageWidths : download_s3_object(ok, size)
    \/ process
    \/ open_resized_name
    \/ \E ok \in BOOLEAN : resize(ok)
    \/ \E ok \in BOOLEAN : imgoptimize(ok)
    \/ \E ok \in BOOLEAN : upload(ok)
    \/ invocation_ends

Next ==
    \/ \E b \in Buckets, k \in Keys : lambda_handler(<<Record(b, k)>>)
    \/ Steps

Spec == Init /\ [][Next]_vars

-----------------------------------------------------------------------------
(* find_config_objects called on its own, any number of times *)

find_config_objects_call(b, k) ==
    /\ pc \in {"idle", "called"}
    /\ LET found == find_config_objects(Config_setting, b, k) IN
       /\ bucket' = b
       /\ key_name' = k
       /\ Config_setting' = found.setting
       /\ settings' = found.ret
       /\ exc' = found.exc
    /\ pc' = "called"
    /\ UNCHANGED << Config_initial, event, si, oi, raised_exc, original_file, original_files,
                    resized_name, resized_files, attempt_number, downloads, downloaded,
                    processed, failed, work, image_width >>

InitMatch == Loaded(ConfigsOf(Rules))

NextMatch ==
    \E b \in Buckets, k \in Keys :
        find_config_objects_call(b, k) /\ UNCHANGED << nofirst, first, again >>

\* Any configuration, one call after another.
SpecMatch == InitMatch /\ [][NextMatch]_vars

\* The same calls, with the first call remembered.
NextAgain ==
    \E b \in Buckets, k \in Keys :
        /\ find_config_objects_call(b, k)
        /\ first' = IF nofirst
                    THEN [bucket |-> b, key |-> k, exc |-> exc', ret |-> settings']
                    ELSE first
        /\ nofirst' = FALSE
        /\ again' = (again \/ (~nofirst /\ b = first.bucket /\ k = first.key))

SpecAgain == Init /\ [][NextAgain]_vars

-----------------------------------------------------------------------------
(* What the claims speak of, stated without the code's algorithm *)

\* Characters of the string the items before item idx of a pattern consume.
Consumed(pattern, idx) == Cardinality({m \in 1..(idx - 1) : pattern[m] # "$"})

\* The string matches the pattern from its start (text may follow the match).
MatchesFromStart(pattern, string) ==
    \A idx \in 1..Len(pattern) :
        IF pattern[idx] = "$"
        THEN Consumed(pattern, idx) = Len(string)
        ELSE /\ Consumed(pattern, idx) < Len(string)
             /\ pattern[idx] \in {"(.)", string[Consumed(pattern, idx) + 1]}

\* The capture groups of that match, in the pattern's order.
GroupsOf(pattern, string) ==
    LET at == SelectSeq([m \in 1..Len(pattern) |-> m], LAMBDA m : pattern[m] = "(.)")
    IN  [g \in 1..Len(at) |-> string[Consumed(pattern, at[g]) + 1]]

\* Rule c is one the event (b, k) selects.
Matching(c, b, k) ==
    /\ "bucket" \in DOMAIN c /\ c.bucket = b
    /\ "key_regexp" \in DOMAIN c
    /\ "outputs" \in DOMAIN c /\ Len(c.outputs) >= 1
    /\ MatchesFromStart(c.key_regexp, k)

\* The positions in the configuration of the rules the event selects, ascending.
MatchedRules(config, b, k) ==
    SelectSeq([n \in 1..Len(config) |-> n], LAMBDA n : Matching(config[n], b, k))

\* The template asks for a group the match does not have.
BadTemplate(template, groups) ==
    \E t \in 1..Len(template) :
        IsField(template[t]) /\ FieldIndex(template[t]) >= Len(groups)

\* The template with {i} replaced by the i-th group (counted from 0).
Substituted(template, groups) ==
    [t \in 1..Len(template) |->
        IF IsField(template[t]) THEN groups[FieldIndex(template[t]) + 1] ELSE template[t]]

Range(seq) == {seq[n] : n \in 1..Len(seq)}

\* The outputs of the rules find_config_objects returned, as <<rule, output>>.
AllOutputs ==
    UNION {{<<s, o>> : o \in 1..Len(settings[s].outputs)} : s \in 1..Len(settings)}

\* The outputs of the rules the event selects in the configuration as loaded.
SelectedOutputs ==
    LET idx == MatchedRules(Config_initial, bucket, key_name)
    IN  UNION {{<<s, o>> : o \in 1..Len(Config_initial[idx[s]].outputs)} : s \in 1..Len(idx)}

SelectedOutput(so) ==
    Config_initial[MatchedRules(Config_initial, bucket, key_name)[so[1]]].outputs[so[2]]

SelectedGroups(so) ==
    GroupsOf(Config_initial[MatchedRules(Config_initial, bucket, key_name)[so[1]]].key_regexp,
             key_name)

Ended == pc \in {"returned", "raised"}

\* The output process was last called for.
Current == processed[Len(processed)]

-----------------------------------------------------------------------------
(* The claims *)

\* C1: once the download has succeeded (so at least one rule matched), process
\* has been invoked for every output of every matched rule by the time the
\* handler returns or raises, whichever of the outputs failed.
C1_AllOutputsAttempted ==
    (Ended /\ downloaded) => (AllOutputs # {} /\ AllOutputs \subseteq Range(processed))

\* C1 witness: the handler ended after the first of at least three outputs
\* failed and a later one succeeded.
C1_Witness ==
    /\ Ended /\ downloaded
    /\ Cardinality(AllOutputs) >= 3
    /\ <<1, 1>> \in failed
    /\ failed # AllOutputs
    /\ AllOutputs \subseteq Range(processed)

\* C2: after a successful download the handler raises if and only if some
\* output failed, it raises only when every output has been attempted, and it
\* returns when every output succeeded.
C2_RaisesIffSomeOutputFailed ==
    /\ (Ended /\ downloaded) => ((pc = "raised") <=> (failed # {}))
    /\ (pc = "raised" /\ downloaded) =>
           (AllOutputs \subseteq Range(processed) /\ exc.output \in failed)
    /\ (downloaded /\ failed # {}) => (pc # "returned")
    /\ (Ended /\ downloaded /\ failed = {}) => (pc = "returned" /\ exc = None)

\* C2 witness: the handler raised with only the middle output failed.
C2_Witness ==
    /\ pc = "raised" /\ downloaded
    /\ failed = {<<1, 2>>}
    /\ Len(processed) >= 3

\* C3: an output's upload is attempted at most 10 times; when every attempt
\* fails there are exactly 10 attempts and the output fails with the error of
\* the 10th; when attempt k is the first to succeed there are exactly k
\* attempts (k - 1 of them failed) and the output is no failure.
C3_UploadRetryBound ==
    /\ work.upload <= 10
    /\ (pc = "upload") => (~work.done /\ work.upload = attempt_number /\ work.upload < 10)
    /\ (work.done /\ work.error.type = "UploadError") =>
           /\ work.upload = 10
           /\ work.error = Exception("UploadError", Current, 10)
           /\ Current \in failed
           /\ raised_exc = work.error
    /\ (work.done /\ work.error = None) =>
           /\ work.upload \in 1..10
           /\ attempt_number = work.upload
           /\ Current \notin failed
           /\ raised_exc.output # Current

\* C3 witness: an output failed after ten failed attempts of upload.
C3_Witness ==
    /\ work.done
    /\ work.upload = 10
    /\ work.error.type = "UploadError"
    /\ Current \in failed

\* C4: when the event matches no rule the handler returns normally and has
\* done no download, resize, optimize or upload and created no temporary file.
C4_NoMatchNoWork ==
    (pc # "idle" /\ MatchedRules(Config_initial, bucket, key_name) = << >>) =>
        /\ pc = "returned"
        /\ exc = None
        /\ downloads = 0 /\ ~downloaded
        /\ processed = << >>
        /\ work = NoWork
        /\ ~original_file /\ ~resized_name

\* C4 witness: the handler returned on an event of a bucket that has rules,
\* none of which matches the key.
C4_Witness ==
    /\ pc = "returned"
    /\ Len(Config_initial) >= 1
    /\ \A n \in 1..Len(Config_initial) : Config_initial[n].bucket = bucket
    /\ MatchedRules(Config_initial, bucket, key_name) = << >>

ReturnedAreSelected ==
    LET idx == MatchedRules(Config_initial, bucket, key_name) IN
    /\ Len(settings) = Len(idx)
    /\ \A n \in 1..Len(idx) :
           /\ settings[n].bucket = Config_initial[idx[n]].bucket
           /\ settings[n].key_regexp = Config_initial[idx[n]].key_regexp
           /\ Len(settings[n].outputs) = Len(Config_initial[idx[n]].outputs)

\* C6: for every configuration, bucket and key, find_config_objects returns
\* exactly the rules of that bucket that have a key_regexp matching the key
\* from its start and at least one output, in configuration order, each once.
C6_ReturnsExactlySelectedRules ==
    (pc = "called") => (exc = None /\ ReturnedAreSelected)

\* C7: each returned output has its configured bucket, or the source bucket
\* when none is configured, and its key template with {i} replaced by the i-th
\* group of its rule's match; the outputs keep their configured order.
C7_OutputsResolved ==
    (pc = "called" /\ exc = None) =>
        /\ AllOutputs = SelectedOutputs
        /\ \A so \in AllOutputs :
               LET configured == SelectedOutput(so)
                   returned == settings[so[1]].outputs[so[2]]
               IN  /\ returned.bucket = IF "bucket" \in DOMAIN configured
                                        THEN configured.bucket
                                        ELSE bucket
                   /\ returned.key = Substituted(configured.key, SelectedGroups(so))
                   /\ DOMAIN returned = DOMAIN configured \cup {"bucket"}
                   /\ \A f \in DOMAIN configured \ {"bucket", "key"} :
                          returned[f] = configured[f]

\* C7 witness: a call returned a rule matched with two groups, one output with
\* the inherited bucket and one with its own bucket and both groups in its key.
C7_Witness ==
    /\ pc = "called" /\ exc = None
    /\ \E so \in AllOutputs :
           /\ "bucket" \notin DOMAIN SelectedOutput(so)
           /\ settings[so[1]].outputs[so[2]].bucket = bucket
    /\ \E so \in AllOutputs :
           /\ Len(SelectedGroups(so)) = 2
           /\ SelectedOutput(so).key = <<"{1}", "{0}">>
           /\ settings[so[1]].outputs[so[2]].bucket # bucket
           /\ settings[so[1]].outputs[so[2]].key = <<key_name[2], key_name[1]>>

\* Some output of a selected rule has a key template the rule's match cannot fill.
SomeBadTemplate ==
    \E so \in SelectedOutputs : BadTemplate(SelectedOutput(so).key, SelectedGroups(so))

\* C8: a bad key template is fatal for its output only: when the handler has
\* ended, every other output of the selected rules has been attempted.
C8_BadTemplateFailsOneOutput ==
    (Ended /\ SomeBadTemplate) =>
        \A so \in SelectedOutputs :
            ~BadTemplate(SelectedOutput(so).key, SelectedGroups(so)) =>
                so \in Range(processed)

\* C9: an output without width fails in process at once, with no temporary
\* file, resize, optimize or upload attempt, and only that output is aborted:
\* every output of the invocation is attempted all the same.
C9_MissingWidthFailsOneOutput ==
    /\ (processed # << >> /\ "width" \notin DOMAIN settings[Current[1]].outputs[Current[2]]) =>
           /\ work = [NoWork EXCEPT !.done = TRUE,
                                    !.error = Exception("ValueError", Current, 0)]
           /\ attempt_number = 0
           /\ ~resized_name
           /\ Current \in failed
           /\ pc \in {"process", "raised"}
    /\ (Ended /\ \E so \in Range(processed) : "width" \notin DOMAIN settings[so[1]].outputs[so[2]]) =>
           AllOutputs \subseteq Range(processed)

\* C9 witness: the handler ended after an output without width failed first
\* and the output after it was uploaded.
C9_Witness ==
    /\ Ended
    /\ Len(processed) >= 2
    /\ "width" \notin DOMAIN settings[1].outputs[1]
    /\ failed = {<<1, 1>>}
    /\ work.upload >= 1

\* C10: Config.setting is never mutated, so a call with the arguments of the
\* first call returns what the first call returned.
C10_ConfigNeverMutated ==
    /\ Config_setting = Config_initial
    /\ (pc = "called" /\ ~nofirst /\ bucket = first.bucket /\ key_name = first.key) =>
           (settings = first.ret /\ exc = first.exc)

\* C10 witness: the first call's arguments came again, after a call that
\* resolved an output without bucket, and the configured output is still
\* without bucket and has its template.
C10_Witness ==
    /\ pc = "called" /\ again
    /\ bucket = first.bucket /\ key_name = first.key
    /\ \E so \in AllOutputs :
           /\ settings[so[1]].outputs[so[2]].key # SelectedOutput(so).key
           /\ "bucket" \notin DOMAIN SelectedOutput(so)

-----------------------------------------------------------------------------
(* Temporary files *)

InProcessBlock == pc \in {"resize", "optimize", "upload"}
InHandlerBlock == pc \in {"download", "process", "resized_name"} \/ InProcessBlock

\* C11: temporary files never outlive their scope.  A resized temporary file
\* exists only while process is inside its with block, so never more than
\* one, and none once that output's pipeline has exited whatever the way; the
\* source temporary file exists from its creation until the last output was
\* attempted or the download failed, and none exists when the handler has
\* returned or raised, nor between invocations.
C11_TempFilesScoped ==
    /\ resized_files <= 1
    /\ resized_files = (IF InProcessBlock THEN 1 ELSE 0)
    /\ original_files = (IF InHandlerBlock THEN 1 ELSE 0)
    /\ work.done => resized_files = 0
    /\ (Ended \/ pc = "idle") => (original_files = 0 /\ resized_files = 0)

\* C11 witness: the handler raised after an output's upload failed for good,
\* a resized file having been created for it, and no file is left.
C11_Witness ==
    /\ pc = "raised"
    /\ work.tmp = 1
    /\ work.error.type = "UploadError"
    /\ downloaded
    /\ original_files = 0
    /\ resized_files = 0

-----------------------------------------------------------------------------
(* The handler on outputs with policies, attributes and file extensions *)

PipelineKeys ==
    { <<"a", ".", "p", "n", "g">>,
      <<"a", ".", "j", "p", "g">>,
      <<"a", ".", "g", "z">>,
      <<"a", ".", "p", "n", "g", ".", "g", "z">>,
      <<".", "p", "n", "g">>,
      <<"d", "/", "a">> }

OutShrinkTwo ==
    [key |-> <<"o", ".", "j", "p", "g">>, width |-> 2, policy |-> ResizePolicy.ONLY_SHRINK]
OutShrinkOne ==
    [key |-> <<"{0}", ".", "p", "n", "g">>, width |-> 1, policy |-> ResizePolicy.ONLY_SHRINK]
OutDefault ==
    [key |-> <<"o", ".", "g", "z">>, width |-> 3, policy |-> ResizePolicy.DEFAULT]
OutAttr ==
    [key |-> <<"o", ".", "j", "p", "g">>, width |-> 1,
     attr |-> [ContentType |-> "text/plain", RandomKey |-> "x", ACL |-> "public-read"]]
OutEncoding ==
    [key |-> <<"o">>, width |-> 2, region |-> "eu-west-1",
     attr |-> [ContentEncoding |-> "identity", Metadata |-> "m", x |-> "y"]]
OutNoAttrs ==
    [key |-> <<"o", ".", "p", "n", "g">>, width |-> 1, attr |-> << >>]
OutZero ==
    [key |-> <<"o", ".", "p", "n", "g">>, width |-> 0]
OutNegative ==
    [key |-> <<"o", ".", "j", "p", "g">>, width |-> -1, policy |-> ResizePolicy.ONLY_SHRINK]

PipelineOutputs ==
    { <<OutShrinkTwo, OutAttr>>,
      <<OutShrinkOne>>,
      <<OutDefault, OutZero>>,
      <<OutEncoding, OutNegative>>,
      <<OutNoAttrs, OutLit>> }

\* One rule of bucket b1 that every key matches.
PipelineConfigs ==
    { <<[bucket |-> "b1", key_regexp |-> <<"(.)">>, outputs |-> outputs]>> :
        outputs \in PipelineOutputs }

InitPipeline == Loaded(PipelineConfigs)

NextPipeline ==
    \/ \E k \in PipelineKeys : lambda_handler(<<Record("b1", k)>>)
    \/ Steps

SpecPipeline == InitPipeline /\ [][NextPipeline]_vars

\* The configured attributes of the output process was last called for, the
\* empty mapping when it has none.
CurrentSetting == settings[Current[1]].outputs[Current[2]]
CurrentAttr == IF "attr" \in DOMAIN CurrentSetting THEN CurrentSetting.attr ELSE << >>
ExtraArgs == work.put[1].ExtraArgs
Inferable == {"ContentType", "ContentEncoding"}

\* C12: resize calls imgresize, with the output's width, exactly when the
\* policy is not ONLY_SHRINK or the width is strictly below the source's
\* native width; under ONLY_SHRINK with width >= native width, equality
\* included, imgresize is not called and the source's bytes are written
\* unchanged.
C12_ResizePolicy ==
    work.resize > 0 =>
        LET policy == IF "policy" \in DOMAIN CurrentSetting
                      THEN CurrentSetting.policy ELSE "DEFAULT"
            width == CurrentSetting.width
        IN  /\ work.resized_by = "imgresize" <=>
                   (policy # "ONLY_SHRINK" \/ width < image_width)
            /\ work.resized_by = "imgresize" => work.resized_width = width
            /\ (policy = "ONLY_SHRINK" /\ width >= image_width) =>
                   /\ work.resized_by = "write(f.read())"
                   /\ work.resized_width = image_width

\* C12 witness: under ONLY_SHRINK a source as wide as the target was copied,
\* and resize returned.
C12_Witness ==
    /\ pc = "optimize"
    /\ work.resize = 1
    /\ "policy" \in DOMAIN CurrentSetting
    /\ CurrentSetting.policy = "ONLY_SHRINK"
    /\ CurrentSetting.width = image_width
    /\ work.resized_by = "write(f.read())"

\* C13: in the ExtraArgs of an upload, ContentType and ContentEncoding have
\* the configured value whenever the output's attributes configure one; the
\* value guessed from the file name is there only for a key the configured
\* attributes lack; and every other key of ExtraArgs is a configured one with
\* its configured value, every other permitted configured key being there.
C13_ConfiguredWinsOverGuessed ==
    work.put # << >> =>
        LET guessed == guess_mimetype(work.put[1].Filename) IN
        /\ \A key \in Inferable :
               IF key \in DOMAIN CurrentAttr
               THEN key \in DOMAIN ExtraArgs /\ ExtraArgs[key] = CurrentAttr[key]
               ELSE IF key \in DOMAIN guessed
               THEN key \in DOMAIN ExtraArgs /\ ExtraArgs[key] = guessed[key]
               ELSE key \notin DOMAIN ExtraArgs
        /\ \A key \in DOMAIN ExtraArgs \ Inferable :
               key \in DOMAIN CurrentAttr /\ ExtraArgs[key] = CurrentAttr[key]
        /\ \A key \in (DOMAIN CurrentAttr \cap permitted) \ Inferable :
               key \in DOMAIN ExtraArgs

\* C13 witness: an upload whose configured ContentType differs from the type
\* guessed for its file, and whose ExtraArgs carry the configured one.
C13_Witness ==
    /\ work.put # << >>
    /\ "ContentType" \in DOMAIN CurrentAttr
    /\ "ContentType" \in DOMAIN guess_mimetype(work.put[1].Filename)
    /\ guess_mimetype(work.put[1].Filename).ContentType # CurrentAttr.ContentType
    /\ ExtraArgs.ContentType = CurrentAttr.ContentType

\* C14: whatever attributes an output configures, none included, every key of
\* the ExtraArgs of an upload is a permitted one: a configured key that is not
\* permitted is absent, a permitted configured key has its configured value,
\* and what the guess adds is ContentType or ContentEncoding only.
C14_ExtraArgsPermitted ==
    work.put # << >> =>
        /\ DOMAIN ExtraArgs \subseteq permitted
        /\ \A key \in DOMAIN CurrentAttr :
               IF key \in permitted
               THEN key \in DOMAIN ExtraArgs /\ ExtraArgs[key] = CurrentAttr[key]
               ELSE key \notin DOMAIN ExtraArgs
        /\ DOMAIN ExtraArgs \ DOMAIN CurrentAttr \subseteq Inferable

\* C14 witness: an upload of an output that configures a key outside the
\* permitted ones next to a permitted one, the ExtraArgs having the latter only.
C14_Witness ==
    /\ work.put # << >>
    /\ "RandomKey" \in DOMAIN CurrentAttr
    /\ "RandomKey" \notin DOMAIN ExtraArgs
    /\ "ACL" \in DOMAIN ExtraArgs

\* What mimetypes guesses for a file name with the given extension.
GuessedFor(ext) == guess_mimetype(<<"f">> \o ext)

\* The ExtraArgs' entries that no configured attribute accounts for are those
\* guessed for the extension.
InferredAre(ext) ==
    \A key \in Inferable \ DOMAIN CurrentAttr :
        IF key \in DOMAIN GuessedFor(ext)
        THEN key \in DOMAIN ExtraArgs /\ ExtraArgs[key] = GuessedFor(ext)[key]
        ELSE key \notin DOMAIN ExtraArgs

\* C15 as stated: the inferred ContentType and ContentEncoding of an upload
\* are those of the extension of the output's resolved key, whatever the
\* extension of the source key.
C15_InferredFromOutputKey ==
    work.put # << >> => InferredAre(splitext(work.put[1].Key)[2])

\* C15 amended: the inferred ContentType and ContentEncoding of an upload are
\* those of the resized temporary file's name, whose extension is the (last)
\* extension of the source key; the output's key plays no part.
C15_InferredFromSourceExtension ==
    work.put # << >> =>
        /\ InferredAre(splitext(key_name)[2])
        /\ splitext(work.put[1].Filename)[2] = splitext(key_name)[2]

\* C15 witness: a .png source uploaded under a .jpg key with the ContentType
\* guessed for .png.
C15_Witness ==
    /\ work.put # << >>
    /\ splitext(key_name)[2] = <<".", "p", "n", "g">>
    /\ splitext(work.put[1].Key)[2] = <<".", "j", "p", "g">>
    /\ "ContentType" \notin DOMAIN CurrentAttr
    /\ "ContentType" \in DOMAIN ExtraArgs
    /\ ExtraArgs.ContentType = "image/png"

\* C18 as stated: an output whose width is present but zero or negative fails
\* in process before resize: no resize, optimize or upload for it, and it
\* ends with the ValueError of the width check.
C18_NonPositiveWidthRejected ==
    (processed # << >> /\ "width" \in DOMAIN CurrentSetting /\ CurrentSetting.width <= 0) =>
        /\ work.resize = 0
        /\ work.optimize = 0
        /\ work.upload = 0
        /\ work.done => work.error.type = "ValueError"

-----------------------------------------------------------------------------
(* Which failure surfaces, the order of the steps, a failed download *)

\* The place in `processed` of the last output that failed.
LastFailing ==
    CHOOSE n \in 1..Len(processed) :
        /\ processed[n] \in failed
        /\ \A m \in (n + 1)..Len(processed) : processed[m] \notin failed

\* <<rule, output>> a comes before b in processing order.
Before(a, b) == a[1] < b[1] \/ (a[1] = b[1] /\ a[2] < b[2])

\* C16: outputs are processed rule after rule in the order returned, each
\* rule's outputs in their order, and when outputs failed the exception the
\* handler raises is the one of the last output that failed in that order,
\* never the one of an earlier failing output.
C16_LastFailureSurfaces ==
    /\ \A m, n \in 1..Len(processed) : m < n => Before(processed[m], processed[n])
    /\ (Ended /\ failed # {}) =>
           /\ pc = "raised"
           /\ exc # None
           /\ exc.output = processed[LastFailing]
           /\ \A so \in failed : so # processed[LastFailing] => exc.output # so
           /\ Current \in failed => exc = work.error

\* C16 witness: the two outputs of the first rule failed, those of the second
\* rule were uploaded, and the handler raised the second failure.
C16_Witness ==
    /\ pc = "raised"
    /\ Len(processed) = 4
    /\ failed = {<<1, 1>>, <<1, 2>>}
    /\ exc.output = <<1, 2>>
    /\ exc.type = "ResizeError"
    /\ work.error = None

\* C17: for each output the steps run in the order width check, temporary
\* file, resize, optimize, upload.  resize and optimize run at most once each,
\* however often upload is attempted; upload is attempted only after both
\* returned; an output whose resize or optimize raised is over, with no second
\* try of that step and no upload attempt.
C17_StepsInOrder ==
    /\ work.tmp <= 1 /\ work.resize <= 1 /\ work.optimize <= 1
    /\ work.tmp > 0 => "width" \in DOMAIN CurrentSetting
    /\ work.resize > 0 => work.tmp = 1
    /\ work.optimize > 0 => (work.resize = 1 /\ work.error.type # "ResizeError")
    /\ work.upload > 0 =>
           /\ work.resize = 1 /\ work.optimize = 1
           /\ work.error.type \notin {"ResizeError", "OptimizeError"}
    /\ work.error.type = "ResizeError" =>
           (work.done /\ work.resize = 1 /\ work.optimize = 0 /\ work.upload = 0)
    /\ work.error.type = "OptimizeError" =>
           (work.done /\ work.resize = 1 /\ work.optimize = 1 /\ work.upload = 0)
    /\ pc = "upload" => (work.resize = 1 /\ work.optimize = 1 /\ ~work.done)
    /\ pc = "optimize" => (work.resize = 1 /\ work.optimize = 0 /\ work.upload = 0)
    /\ pc = "resize" => (work.resize = 0 /\ work.optimize = 0 /\ work.upload = 0)

\* C17 witness: an output was uploaded at its third attempt, after one resize
\* and one optimize.
C17_Witness ==
    /\ work.done
    /\ work.error = None
    /\ work.upload = 3
    /\ work.resize = 1
    /\ work.optimize = 1

\* C19: a download that raises is not attempted again, no output is then
\* processed (no temporary file, resize, optimize or upload for any output of
\* the matched rules), and the handler raises the download's exception.
C19_DownloadFailureAborts ==
    /\ downloads <= 1
    /\ (downloads > 0 /\ ~downloaded) =>
           /\ pc = "raised"
           /\ exc = Exception("DownloadError", NoOutput, 0)
           /\ processed = << >>
           /\ failed = {}
           /\ work = NoWork

\* C19 witness: the handler raised after the download failed, with two rules
\* matched and their outputs waiting.
C19_Witness ==
    /\ pc = "raised"
    /\ downloads = 1
    /\ ~downloaded
    /\ Len(settings) = 2
    /\ Cardinality(AllOutputs) >= 3
    /\ exc.type = "DownloadError"

-----------------------------------------------------------------------------
(* Events with several records *)

\* Keys as S3 puts them in the event: quoted.
EventKeys == { <<"a">>, <<"b", "+">>, <<"%", "2", "E", "a">> }

EventRecords == {Record(b, k) : b \in Buckets, k \in EventKeys}

Events == UNION {[1..n -> EventRecords] : n \in 1..MaxRecords}

\* A rule for the keys of b1 that begin with a, one for the two-character
\* keys of b2.
EventConfigs ==
    { << [bucket |-> "b1", key_regexp |-> <<"a">>, outputs |-> <<OutLit>>],
         [bucket |-> "b2", key_regexp |-> <<"(.)", "(.)">>, outputs |-> <<OutOther, OutPlain>>] >> }

InitEvent == Loaded(EventConfigs)

NextEvent ==
    \/ \E Records \in Events : lambda_handler(Records)
    \/ Steps

SpecEvent == InitEvent /\ [][NextEvent]_vars

\* C20: whatever the number of records, the handler works on the first one
\* only.  Bucket and key are those of Records[0]; the rules matched are those
\* the first record selects; there is at most one download; each processed
\* output is an output of those rules and is processed once, so nothing is
\* matched, downloaded, resized or uploaded for a later record; and the
\* handler returns normally once every output of the first record succeeded.
C20_FirstRecordOnly ==
    pc # "idle" =>
        /\ bucket = event[1].s3.bucket.name
        /\ key_name = unquote_plus(event[1].s3.object.key)
        /\ exc = None => ReturnedAreSelected
        /\ downloads <= 1
        /\ Range(processed) \subseteq AllOutputs
        /\ \A m, n \in 1..Len(processed) : processed[m] = processed[n] => m = n
        /\ (Ended /\ downloaded /\ failed = {}) =>
               (pc = "returned" /\ Range(processed) = AllOutputs)

\* C20 witness: an event of two records that select different rules; the
\* handler returned after uploading the first record's only output.
C20_Witness ==
    /\ pc = "returned"
    /\ Len(event) = 2
    /\ event[1] = Record("b1", <<"a">>)
    /\ event[2] = Record("b2", <<"b", "+">>)
    /\ processed = << <<1, 1>> >>
    /\ work.upload = 1
    /\ work.put[1].Key = <<"z">>
    /\ downloads = 1

====
